---- MODULE Spec2Model ----
(***************************************************************************)
(* ResuForge backend: the degradation-aware bullet rewrite engine.         *)
(*   utils/smart_fallback.py   cascading fallback and its strategies       *)
(*   utils/partial_failure.py  PartialFailureHandler                       *)
(*   utils/timeout_utils.py    timeout / with_retry decorators             *)
(*   agents/rewrite_agent.py   RewriteAgent                                *)
(*   agents/layout_engine.py   LayoutEngine.validate_constraints           *)
(*   main.py                   /optimize and /optimize-and-export          *)
(* Python strings are sequences of one-character strings.                  *)
(***************************************************************************)
EXTENDS Integers, Sequences, FiniteSets, TLC

\* ------------------------------------------------------------------------
\* Bounds of the model
\* ------------------------------------------------------------------------
MaxBulletLen == 2
MaxKeywords == 4
MaxLength == 11

\* ------------------------------------------------------------------------
\* Characters and Python str methods
\* ------------------------------------------------------------------------
UpperChars == {"A", "B"}
LowerChars == {"a", "b"}
DigitChars == {"0", "1", "2", "3", "4", "5", "6", "7", "8", "9"}

\* the characters bullets are built from: a lowercase letter, an uppercase
\* letter, whitespace and the period
Chars == {"a", "B", " ", "."}

IsUpper(c) == c \in UpperChars
IsLower(c) == c \in LowerChars
IsSpace(c) == c = " "
\* \w of the re module
IsWordChar(c) == c \in UpperChars \cup LowerChars \cup DigitChars \cup {"_"}

LowerChar(c) == IF c = "A" THEN "a" ELSE IF c = "B" THEN "b" ELSE c

\* str.lower()
lower(s) == [i \in 1..Len(s) |-> LowerChar(s[i])]

Min(a, b) == IF a < b THEN a ELSE b
Max(a, b) == IF a > b THEN a ELSE b

\* s[:n]
SliceTo(s, n) ==
    IF n >= 0 THEN SubSeq(s, 1, Min(n, Len(s)))
    ELSE SubSeq(s, 1, Max(0, Len(s) + n))

\* s[n:]
SliceFrom(s, n) == SubSeq(s, Min(n, Len(s)) + 1, Len(s))

RECURSIVE lstrip(_)
lstrip(s) ==
    IF s = <<>> THEN s
    ELSE IF IsSpace(Head(s)) THEN lstrip(Tail(s)) ELSE s

RECURSIVE rstrip(_)
rstrip(s) ==
    IF s = <<>> THEN s
    ELSE IF IsSpace(s[Len(s)]) THEN rstrip(SubSeq(s, 1, Len(s) - 1)) ELSE s

\* str.strip()
strip(s) == lstrip(rstrip(s))

\* str.rstrip(chars) for a one-character set
RECURSIVE rstrip_char(_, _)
rstrip_char(s, c) ==
    IF s = <<>> THEN s
    ELSE IF s[Len(s)] = c THEN rstrip_char(SubSeq(s, 1, Len(s) - 1), c) ELSE s

\* str.split(): the maximal runs of non-whitespace characters
RECURSIVE split_acc(_, _, _)
split_acc(s, word, words) ==
    IF s = <<>> THEN (IF word = <<>> THEN words ELSE Append(words, word))
    ELSE IF IsSpace(Head(s))
         THEN split_acc(Tail(s), <<>>,
                        IF word = <<>> THEN words ELSE Append(words, word))
         ELSE split_acc(Tail(s), Append(word, Head(s)), words)

split(s) == split_acc(s, <<>>, <<>>)

\* sep.join(parts)
RECURSIVE join(_, _)
join(sep, parts) ==
    IF parts = <<>> THEN <<>>
    ELSE IF Len(parts) = 1 THEN parts[1]
    ELSE parts[1] \o sep \o join(sep, Tail(parts))

\* s.rsplit(' ', 1)[0]: the text before the last space, s when it has none
rsplit_space_first(s) ==
    LET spaces == {i \in 1..Len(s) : s[i] = " "}
    IN  IF spaces = {} THEN s
        ELSE SubSeq(s, 1, (CHOOSE i \in spaces : \A j \in spaces : j <= i) - 1)

\* all strings over an alphabet of length at most n
StringsUpTo(alphabet, n) == UNION {[1..k -> alphabet] : k \in 0..n}

\* ------------------------------------------------------------------------
\* utils/smart_fallback.py
\* ------------------------------------------------------------------------

\* the selection loop of template_based_rewrite: a keyword is taken when
\* current_length + len(kw) + 8 < max_length
RECURSIVE template_select(_, _, _)
template_select(kws, current_length, max_len) ==
    IF kws = <<>> THEN <<>>
    ELSE LET kw == Head(kws)
             added_length == Len(kw) + 8
         IN  IF current_length + added_length < max_len
             THEN <<kw>> \o template_select(Tail(kws),
                                            current_length + added_length,
                                            max_len)
             ELSE template_select(Tail(kws), current_length, max_len)

template_based_rewrite(blt, kws, max_len) ==
    IF strip(blt) = <<>> THEN blt
    ELSE
      LET words == split(blt)
          action_verb == IF words # <<>> THEN words[1] ELSE <<>>
          rest_of_bullet == IF Len(words) > 1
                            THEN join(<<" ">>, Tail(words)) ELSE <<>>
          selected_keywords == template_select(kws, Len(blt), max_len)
          keywords_part == join(<<",", " ">>, selected_keywords)
          enhanced ==
              IF rest_of_bullet # <<>>
              THEN action_verb \o <<" ">> \o rest_of_bullet
                   \o <<" ", "u", "s", "i", "n", "g", " ">> \o keywords_part
              ELSE action_verb \o <<" ", "w", "i", "t", "h", " ">>
                   \o keywords_part
      IN  IF selected_keywords = <<>> THEN blt
          ELSE IF Len(enhanced) > max_len
               THEN rsplit_space_first(SliceTo(enhanced, max_len))
               ELSE enhanced

\* mutant: every keyword is taken, whatever the length
append_select_NoLengthTest(kws, current_length, max_len) == kws

\* the selection loop of simple_keyword_append: a keyword is taken when
\* current_length + len(kw) + 3 < max_length - 1
RECURSIVE append_select(_, _, _)
append_select(kws, current_length, max_len) ==
    IF kws = <<>> THEN <<>>
    ELSE LET kw == Head(kws)
             test_length == current_length + Len(kw) + 3
         IN  IF test_length < max_len - 1
             THEN <<kw>> \o append_select(Tail(kws), test_length, max_len)
             ELSE append_select(Tail(kws), current_length, max_len)

\* mutant: the trailing period of the bullet is kept
simple_keyword_append_KeepsPeriod(blt, kws, max_len) ==
    IF strip(blt) = <<>> THEN blt
    ELSE
      LET clean_bullet == strip(blt)
          keywords_to_add == append_select(kws, Len(clean_bullet), max_len)
          keywords_str == join(<<",", " ">>, keywords_to_add)
      IN  IF keywords_to_add = <<>> THEN blt
          ELSE clean_bullet \o <<" ", "(">> \o keywords_str \o <<")", ".">>

simple_keyword_append(blt, kws, max_len) ==
    IF strip(blt) = <<>> THEN blt
    ELSE
      LET clean_bullet == strip(rstrip_char(blt, "."))
          keywords_to_add == append_select(kws, Len(clean_bullet), max_len)
          keywords_str == join(<<",", " ">>, keywords_to_add)
      IN  IF keywords_to_add = <<>> THEN blt
          ELSE clean_bullet \o <<" ", "(">> \o keywords_str \o <<")", ".">>

\* the maximal runs of \w characters of s
RECURSIVE word_tokens_acc(_, _, _)
word_tokens_acc(s, tok, toks) ==
    IF s = <<>> THEN (IF tok = <<>> THEN toks ELSE toks \cup {tok})
    ELSE IF IsWordChar(Head(s))
         THEN word_tokens_acc(Tail(s), Append(tok, Head(s)), toks)
         ELSE word_tokens_acc(Tail(s), <<>>,
                              IF tok = <<>> THEN toks ELSE toks \cup {tok})

word_tokens(s) == word_tokens_acc(s, <<>>, {})

\* \b[A-Z][a-za-z]*\b
MatchesCapitalized(tok) ==
    /\ Len(tok) >= 1
    /\ IsUpper(tok[1])
    /\ \A i \in 2..Len(tok) : IsLower(tok[i])

\* \b[a-z]+(?:[A-Z][a-z]+)+\b
MatchesCamel(tok) ==
    /\ Len(tok) >= 1
    /\ \A i \in 1..Len(tok) : IsLower(tok[i]) \/ IsUpper(tok[i])
    /\ IsLower(tok[1])
    /\ IsLower(tok[Len(tok)])
    /\ \E i \in 1..Len(tok) : IsUpper(tok[i])
    /\ \A i \in 1..(Len(tok) - 1) : ~(IsUpper(tok[i]) /\ IsUpper(tok[i + 1]))

\* re.findall of the two alternatives: both are anchored by \b on each side
\* and consume only \w characters, so a match is a whole \w-run
extract_keywords_from_bullet(blt) ==
    {tok \in word_tokens(blt) : MatchesCapitalized(tok) \/ MatchesCamel(tok)}

\* mutant: the remaining keywords are left in their original order
sort_by_len_Unsorted(kws) == kws

\* list.sort(key=len): stable insertion by length
RECURSIVE insert_by_len(_, _)
insert_by_len(sorted, kw) ==
    IF sorted = <<>> THEN <<kw>>
    ELSE IF Len(Head(sorted)) <= Len(kw)
         THEN <<Head(sorted)>> \o insert_by_len(Tail(sorted), kw)
         ELSE <<kw>> \o sorted

RECURSIVE sort_by_len(_)
sort_by_len(kws) ==
    IF kws = <<>> THEN <<>>
    ELSE insert_by_len(sort_by_len(SubSeq(kws, 1, Len(kws) - 1)), kws[Len(kws)])

smart_keyword_selection(all_keywords, blt, max_count) ==
    LET existing == {lower(e) : e \in extract_keywords_from_bullet(blt)}
        IsNew(kw) == lower(kw) \notin existing
        new_keywords == SelectSeq(all_keywords, IsNew)
    IN  IF new_keywords = <<>> THEN SliceTo(all_keywords, max_count)
        ELSE SliceTo(sort_by_len(new_keywords), max_count)

\* ------------------------------------------------------------------------
\* State
\* ------------------------------------------------------------------------
VARIABLES
    \* cascading_fallback: arguments, position, returned tuple, the levels
    \* tried so far and the calls made to ai_rewrite_func
    bullet, keywords, max_length, ai_rewrite_func,
    cf_pc, cf_result, cf_strategy, cf_trace, ai_calls

cascadeVars == <<bullet, keywords, max_length, ai_rewrite_func,
                 cf_pc, cf_result, cf_strategy, cf_trace, ai_calls>>

VARIABLES
    \* arguments: the items, whether a fallback callable is given, and the
    \* handler's fail_fast flag
    items, fallback, fail_fast,
    \* the callables: the indexes of the items on which processor(item) and
    \* fallback(item) raise, and who called process_batch
    processor_raises, fallback_raises, caller,
    \* the loop: index of the current item, the local list `results`, the
    \* exception being handled, and where control is
    pb_i, results, pb_exc, pb_pc,
    \* self.results and the exception that left process_batch
    self_results, pb_raised,
    \* what get_summary returned, and what batch_rewrite_with_fallback returned
    pb_summary, bw_return

batchVars == <<items, fallback, fail_fast,
               processor_raises, fallback_raises, caller,
               pb_i, results, pb_exc, pb_pc,
               self_results, pb_raised, pb_summary, bw_return>>

VARIABLES
    \* decorator arguments
    max_attempts, timeout_seconds,
    \* with_retry's wrapper: loop variable, last_error, position
    attempt, last_error, rt_pc,
    \* the process's SIGALRM handler, the seconds left on the pending alarm
    \* (0: none) and the handler timeout's wrapper saved
    sig_handler, alarm, old_handler,
    \* invocations of the wrapped function: how many were started, and for
    \* each its attempt, the alarm it started under and its outcome
    calls, inv_log,
    \* what the wrapper returned or raised
    rt_result, rt_error

retryVars == <<max_attempts, timeout_seconds, attempt, last_error, rt_pc,
               sig_handler, alarm, old_handler, calls, inv_log,
               rt_result, rt_error>>

VARIABLES
    \* RewriteAgent.rewrite_bullet: arguments, what ollama.chat did (its
    \* message content, or None when it raised), position, returned text
    rw_bullet_text, rw_max_length, rw_content, rw_pc, rw_return

rewriteVars == <<rw_bullet_text, rw_max_length, rw_content, rw_pc, rw_return>>

VARIABLES
    \* the request: bullets, constraints, final_bullets_json (None: absent)
    req_bullets, req_constraints, final_bullets_override,
    \* the paragraph texts of the uploaded DOCX and of the exported one
    \* (None: nothing was written)
    doc_paragraphs, exported_paragraphs,
    \* the handler: which endpoint ran, the candidate list it validated
    endpoint, candidate_bullets,
    \* the response: status, the bullets returned, the validation list
    http_status, final_bullets, validation_results

httpVars == <<req_bullets, req_constraints, final_bullets_override,
              doc_paragraphs, exported_paragraphs,
              endpoint, candidate_bullets,
              http_status, final_bullets, validation_results>>

VARIABLES
    \* one call of LayoutEngine.validate_constraints: arguments, position,
    \* returned value
    vc_original_text, vc_new_text, vc_max_chars, vc_pc, vc_result

validateVars == <<vc_original_text, vc_new_text, vc_max_chars, vc_pc,
                  vc_result>>

VARIABLES
    \* one call of simple_keyword_append: arguments, position, returned text
    ska_bullet, ska_keywords, ska_max_length, ska_pc, ska_result

appendVars == <<ska_bullet, ska_keywords, ska_max_length, ska_pc, ska_result>>

VARIABLES
    \* one call of a timeout(seconds) wrapper, made directly or by
    \* safe_timeout_call: who calls, the limit, whether the platform has
    \* SIGALRM, and where control is
    tc_caller, tc_seconds, tc_sigalrm, tc_pc,
    \* the process's SIGALRM handler, the seconds left on the pending alarm
    \* (0: none) and the handler the wrapper saved
    tc_handler, tc_alarm, tc_old_handler,
    \* the invocations of the wrapped function, each with the alarm it
    \* started under and its outcome, and whether the alarm went off
    tc_log, tc_fired,
    \* what the call returned or raised
    tc_result, tc_error,
    \* the handler and the pending alarm the caller had when it entered the
    \* wrapper, and the seconds that have passed since
    tc_handler_before, tc_alarm_before, tc_elapsed

timedVars == <<tc_caller, tc_seconds, tc_sigalrm, tc_pc,
               tc_handler, tc_alarm, tc_old_handler,
               tc_log, tc_fired, tc_result, tc_error,
               tc_handler_before, tc_alarm_before, tc_elapsed>>

VARIABLES
    \* one call of smart_keyword_selection: arguments, position, returned list
    sks_all_keywords, sks_bullet, sks_max_count, sks_pc, sks_result

selectVars == <<sks_all_keywords, sks_bullet, sks_max_count, sks_pc,
                sks_result>>

VARIABLES
    \* the resume_versions rows of one resume, as their version_number in
    \* the order the rows were committed
    version_rows,
    \* each caller of create_resume_version: where it is, and its local
    \* new_version_num
    crv_pc, new_version_num

versionVars == <<version_rows, crv_pc, new_version_num>>

vars == <<cascadeVars, batchVars, retryVars, rewriteVars, httpVars,
          validateVars, appendVars, timedVars, selectVars, versionVars>>

\* what each component leaves alone
CascadeOnly ==
    UNCHANGED <<batchVars, retryVars, rewriteVars, httpVars,
                validateVars, appendVars, timedVars,
                selectVars, versionVars>>
BatchOnly ==
    UNCHANGED <<cascadeVars, retryVars, rewriteVars, httpVars,
                validateVars, appendVars, timedVars,
                selectVars, versionVars>>
RetryOnly ==
    UNCHANGED <<cascadeVars, batchVars, rewriteVars, httpVars,
                validateVars, appendVars, timedVars,
                selectVars, versionVars>>
RewriteOnly ==
    UNCHANGED <<cascadeVars, batchVars, retryVars, httpVars,
                validateVars, appendVars, timedVars,
                selectVars, versionVars>>
HttpOnly ==
    UNCHANGED <<cascadeVars, batchVars, retryVars, rewriteVars,
                validateVars, appendVars, timedVars,
                selectVars, versionVars>>
ValidateOnly ==
    UNCHANGED <<cascadeVars, batchVars, retryVars, rewriteVars,
                httpVars, appendVars, timedVars,
                selectVars, versionVars>>
AppendOnly ==
    UNCHANGED <<cascadeVars, batchVars, retryVars, rewriteVars,
                httpVars, validateVars, timedVars,
                selectVars, versionVars>>
TimedOnly ==
    UNCHANGED <<cascadeVars, batchVars, retryVars, rewriteVars,
                httpVars, validateVars, appendVars,
                selectVars, versionVars>>
SelectOnly ==
    UNCHANGED <<cascadeVars, batchVars, retryVars, rewriteVars,
                httpVars, validateVars, appendVars,
                timedVars, versionVars>>
VersionOnly ==
    UNCHANGED <<cascadeVars, batchVars, retryVars, rewriteVars,
                httpVars, validateVars, appendVars,
                timedVars, selectVars>>

\* an absent value (None) is the empty tuple, a present one a 1-tuple
None == <<>>
Some(x) == <<x>>

\* ------------------------------------------------------------------------
\* Inputs
\* ------------------------------------------------------------------------
\* a bullet padded with trailing periods, longer than most limits while its
\* text without the periods is one character
PaddedBullet == <<"a", ".", ".", ".", ".", ".", ".", ".">>

Bullets == StringsUpTo(Chars, MaxBulletLen) \cup {PaddedBullet}

\* the keywords a job description supplies
KeywordUniverse == {<<"b">>, <<"b", "a">>}

KeywordLists == UNION {[1..k -> KeywordUniverse] : k \in 0..MaxKeywords}

\* what ai_rewrite_func may return: nothing, the bullet itself, or a rewrite
\* of five characters, which is over the limit when max_length < 5
AIReplies(blt) == {<<>>, blt, <<"a", "b", " ", "a", "a">>}

\* ------------------------------------------------------------------------
\* cascading_fallback, one step per level
\* ------------------------------------------------------------------------
\* mutant: the tag of the second level misspelt
StrategyTag_Misspelt(level) ==
    CASE level = 1 -> "ai_full"
      [] level = 2 -> "ai_subset"
      [] level = 3 -> "template"
      [] level = 4 -> "append"
      [] OTHER -> "original"

\* the five strategy tags, in the order cascading_fallback tries them
StrategyTag(level) ==
    CASE level = 1 -> "ai_full"
      [] level = 2 -> "ai_smart_subset"
      [] level = 3 -> "template"
      [] level = 4 -> "append"
      [] OTHER -> "original"

\* mutant: `if result != bullet`, the emptiness test dropped
AIAccepts_NoEmptyTest(reply, blt) == reply # blt

\* mutant: the reply is also held to the character limit
AIAccepts_WithinLimit(reply, blt) ==
    reply # <<>> /\ reply # blt /\ Len(reply) <= max_length

\* `if result and result != bullet` of the two AI levels
AIAccepts(reply, blt) == reply # <<>> /\ reply # blt

\* mutant: the template and append levels return whatever they computed
LocalAccepts_Always(reply, blt) == TRUE

\* `if result != bullet` of the template and append levels
LocalAccepts(reply, blt) == reply # blt

\* what ai_rewrite_func may raise: the timeout of the call, or any other error
AIExceptions == {"TimeoutError", "ValueError"}

\* mutant: `except TimeoutError` in place of `except Exception`
CaughtByLevel_OnlyTimeout(exc) == exc = "TimeoutError"

\* `except Exception as e` around each level: every Exception is caught
CaughtByLevel(exc) == exc \in AIExceptions

CascadeIdle ==
    /\ bullet = <<>> /\ keywords = <<>> /\ max_length = 0
    /\ ai_rewrite_func = FALSE
    /\ cf_pc = "idle" /\ cf_result = <<>> /\ cf_strategy = ""
    /\ cf_trace = <<>> /\ ai_calls = <<>>

\* ai_rewrite_func is TRUE when a callable is passed, FALSE for None
CascadeInit ==
    /\ bullet \in Bullets
    /\ keywords \in KeywordLists
    /\ max_length \in 0..MaxLength
    /\ ai_rewrite_func \in BOOLEAN
    /\ cf_pc = "level1"
    /\ cf_result = <<>>
    /\ cf_strategy = ""
    /\ cf_trace = <<>>
    /\ ai_calls = <<>>

\* `return result, "<tag>"`
CascadeReturn(text, level) ==
    /\ cf_result' = text
    /\ cf_strategy' = StrategyTag(level)
    /\ cf_pc' = "done"

\* mutant: the template level is passed over after level 2
CascadeAdvance_SkipsTemplate(level) ==
    /\ cf_pc' = (CASE level = 1 -> "level2" [] level = 2 -> "level4"
                   [] level = 3 -> "level4" [] OTHER -> "level5")
    /\ UNCHANGED <<cf_result, cf_strategy>>

\* falling through to the next level
CascadeAdvance(level) ==
    /\ cf_pc' = (CASE level = 1 -> "level2" [] level = 2 -> "level3"
                   [] level = 3 -> "level4" [] OTHER -> "level5")
    /\ UNCHANGED <<cf_result, cf_strategy>>

Tried(level, outcome) ==
    cf_trace' = Append(cf_trace, [level |-> level, outcome |-> outcome])

\* the guard, the call and the test of an AI level; kws is what it passes
AILevel(level, guard, kws) ==
    \/ /\ ~guard
       /\ Tried(level, "skipped")
       /\ CascadeAdvance(level)
       /\ UNCHANGED ai_calls
    \/ /\ guard
       /\ ai_calls' = Append(ai_calls,
              [keywords |-> kws, raised |-> TRUE, reply |-> <<>>])
       /\ Tried(level, "raised")
       /\ \E exc \in AIExceptions :
            IF CaughtByLevel(exc)
            THEN CascadeAdvance(level)
            ELSE cf_pc' = "raised" /\ UNCHANGED <<cf_result, cf_strategy>>
    \/ /\ guard
       /\ \E reply \in AIReplies(bullet) :
            /\ ai_calls' = Append(ai_calls,
                   [keywords |-> kws, raised |-> FALSE, reply |-> reply])
            /\ IF AIAccepts(reply, bullet)
               THEN Tried(level, "succeeded") /\ CascadeReturn(reply, level)
               ELSE Tried(level, "nochange") /\ CascadeAdvance(level)

\* Level 1: full AI rewrite with all keywords
Level1 ==
    /\ cf_pc = "level1"
    /\ AILevel(1, ai_rewrite_func /\ keywords # <<>>, keywords)
    /\ UNCHANGED <<bullet, keywords, max_length, ai_rewrite_func>>
    /\ CascadeOnly

\* mutant: the subset level runs for every non-empty keyword list and passes
\* the whole list
Level2_NoThreshold ==
    /\ cf_pc = "level2"
    /\ AILevel(2, ai_rewrite_func /\ keywords # <<>>, keywords)
    /\ UNCHANGED <<bullet, keywords, max_length, ai_rewrite_func>>
    /\ CascadeOnly

\* Level 2: AI with a smartly selected subset of keywords
Level2 ==
    /\ cf_pc = "level2"
    /\ AILevel(2, ai_rewrite_func /\ Len(keywords) > 3,
               smart_keyword_selection(keywords, bullet, 3))
    /\ UNCHANGED <<bullet, keywords, max_length, ai_rewrite_func>>
    /\ CascadeOnly

LocalLevel(level, text) ==
    /\ IF LocalAccepts(text, bullet)
       THEN Tried(level, "succeeded") /\ CascadeReturn(text, level)
       ELSE Tried(level, "nochange") /\ CascadeAdvance(level)
    /\ UNCHANGED ai_calls

\* mutant: the template level is given two keywords, as the append level is
Level3_TwoKeywords ==
    /\ cf_pc = "level3"
    /\ LocalLevel(3, template_based_rewrite(
                         bullet, smart_keyword_selection(keywords, bullet, 2),
                         max_length))
    /\ UNCHANGED <<bullet, keywords, max_length, ai_rewrite_func>>
    /\ CascadeOnly

\* Level 3: template-based keyword injection
Level3 ==
    /\ cf_pc = "level3"
    /\ LocalLevel(3, template_based_rewrite(
                         bullet, smart_keyword_selection(keywords, bullet, 3),
                         max_length))
    /\ UNCHANGED <<bullet, keywords, max_length, ai_rewrite_func>>
    /\ CascadeOnly

\* Level 4: simple keyword append
Level4 ==
    /\ cf_pc = "level4"
    /\ LocalLevel(4, simple_keyword_append(
                         bullet, smart_keyword_selection(keywords, bullet, 2),
                         max_length))
    /\ UNCHANGED <<bullet, keywords, max_length, ai_rewrite_func>>
    /\ CascadeOnly

\* Level 5: return original
Level5 ==
    /\ cf_pc = "level5"
    /\ Tried(5, "succeeded")
    /\ CascadeReturn(bullet, 5)
    /\ UNCHANGED <<bullet, keywords, max_length, ai_rewrite_func, ai_calls>>
    /\ CascadeOnly

cascading_fallback == Level1 \/ Level2 \/ Level3 \/ Level4 \/ Level5

\* ------------------------------------------------------------------------
\* utils/partial_failure.py: PartialFailureHandler.process_batch
\* ------------------------------------------------------------------------
MaxItems == 3

ItemValues == {"x", "y"}
ItemLists == UNION {[1..k -> ItemValues] : k \in 0..MaxItems}

\* the exceptions processor and fallback may raise
Exceptions == {"ValueError", "RuntimeError"}

\* opaque callables: what processor(item) and fallback(item) return
processor(item) == <<"processed", item>>

\* the item itself, as data of a failure record
unprocessed(item) == <<"item", item>>
fallback_func(item) == <<"fallback", item>>

\* the subsets of the indexes 0 .. n-1
IndexSets(n) == SUBSET (0..(n - 1))

\* what fallback(item) returns: batch_rewrite_with_fallback passes a closure
\* that returns the bullet itself
fallback_data(item) ==
    IF caller = "batch_rewrite_with_fallback"
    THEN unprocessed(item) ELSE fallback_func(item)

\* OperationResult(success, data, error, index)
OperationResult(success, data, error, index) ==
    [success |-> success, data |-> data, error |-> error, index |-> index]

BatchIdle ==
    /\ items = <<>> /\ fallback = FALSE /\ fail_fast = FALSE
    /\ processor_raises = {} /\ fallback_raises = {} /\ caller = "none"
    /\ pb_summary = None /\ bw_return = None
    /\ pb_i = 0 /\ results = <<>> /\ pb_exc = None /\ pb_pc = "idle"
    /\ self_results = <<>> /\ pb_raised = None

BatchStart ==
    /\ pb_i = 0
    /\ results = <<>>
    /\ pb_exc = None
    /\ pb_pc = "loop"
    /\ self_results = <<>>
    /\ pb_raised = None
    /\ pb_summary = None
    /\ bw_return = None

BatchInit ==
    /\ items \in ItemLists
    /\ fallback \in BOOLEAN
    /\ fail_fast \in BOOLEAN
    /\ processor_raises \in IndexSets(Len(items))
    /\ fallback_raises \in (IF fallback THEN IndexSets(Len(items)) ELSE {{}})
    /\ caller = "process_batch"
    /\ BatchStart

\* batch_rewrite_with_fallback: PartialFailureHandler(fail_fast=False), the
\* items are the bullets, and fallback is a closure that never raises
BatchRewriteInit ==
    /\ items \in ItemLists
    /\ fallback = TRUE
    /\ fail_fast = FALSE
    /\ processor_raises \in IndexSets(Len(items))
    /\ fallback_raises = {}
    /\ caller = "batch_rewrite_with_fallback"
    /\ BatchStart

BatchArgs == <<items, fallback, fail_fast,
              processor_raises, fallback_raises, caller>>

\* processor(item) returns: the success record is appended
ProcessorSucceeds ==
    /\ pb_pc = "loop"
    /\ pb_i < Len(items)
    /\ pb_i \notin processor_raises
    /\ results' = Append(results,
           OperationResult(TRUE, processor(items[pb_i + 1]), None, pb_i))
    /\ pb_i' = pb_i + 1
    /\ UNCHANGED <<BatchArgs, pb_exc, pb_pc, self_results, pb_raised>>
    /\ UNCHANGED <<pb_summary, bw_return>>
    /\ BatchOnly

\* processor(item) raises: control enters the except block
ProcessorRaises ==
    /\ pb_pc = "loop"
    /\ pb_i < Len(items)
    /\ pb_i \in processor_raises
    /\ \E e \in Exceptions : pb_exc' = Some(e)
    /\ pb_pc' = "except"
    /\ UNCHANGED <<BatchArgs, pb_i, results, self_results, pb_raised>>
    /\ UNCHANGED <<pb_summary, bw_return>>
    /\ BatchOnly

\* `if self.fail_fast: raise`
FailFastRaises ==
    /\ pb_pc = "except"
    /\ fail_fast
    /\ pb_raised' = pb_exc
    /\ pb_pc' = "raised"
    /\ UNCHANGED <<BatchArgs, pb_i, results, pb_exc, self_results>>
    /\ UNCHANGED <<pb_summary, bw_return>>
    /\ BatchOnly

\* the failure record: success=False, data=item, error=str(e)
FailureRecord ==
    OperationResult(FALSE, unprocessed(items[pb_i + 1]), pb_exc, pb_i)

\* mutant: the `continue` after the fallback's record is missing, so the
\* failure record is appended as well
FallbackSucceeds_NoContinue ==
    /\ pb_pc = "except"
    /\ ~fail_fast
    /\ fallback
    /\ pb_i \notin fallback_raises
    /\ results' = Append(Append(results,
           OperationResult(TRUE, fallback_data(items[pb_i + 1]),
                           <<"Used fallback after error: ", pb_exc[1]>>, pb_i)),
           FailureRecord)
    /\ pb_i' = pb_i + 1
    /\ pb_exc' = None
    /\ pb_pc' = "loop"
    /\ UNCHANGED <<BatchArgs, self_results, pb_raised>>
    /\ UNCHANGED <<pb_summary, bw_return>>
    /\ BatchOnly

\* fallback(item) returns: a success record carrying the error, then `continue`
FallbackSucceeds ==
    /\ pb_pc = "except"
    /\ ~fail_fast
    /\ fallback
    /\ pb_i \notin fallback_raises
    /\ results' = Append(results,
           OperationResult(TRUE, fallback_data(items[pb_i + 1]),
                           <<"Used fallback after error: ", pb_exc[1]>>, pb_i))
    /\ pb_i' = pb_i + 1
    /\ pb_exc' = None
    /\ pb_pc' = "loop"
    /\ UNCHANGED <<BatchArgs, self_results, pb_raised>>
    /\ UNCHANGED <<pb_summary, bw_return>>
    /\ BatchOnly

\* no fallback, or fallback(item) raised too: the failure is recorded
RecordFailure ==
    /\ pb_pc = "except"
    /\ ~fail_fast
    /\ ~fallback \/ pb_i \in fallback_raises
    /\ results' = Append(results, FailureRecord)
    /\ pb_i' = pb_i + 1
    /\ pb_exc' = None
    /\ pb_pc' = "loop"
    /\ UNCHANGED <<BatchArgs, self_results, pb_raised>>
    /\ UNCHANGED <<pb_summary, bw_return>>
    /\ BatchOnly

\* the loop is over: self.results = results; return results
BatchReturns ==
    /\ pb_pc = "loop"
    /\ pb_i = Len(items)
    /\ self_results' = results
    /\ pb_pc' = "done"
    /\ UNCHANGED <<BatchArgs, pb_i, results, pb_exc, pb_raised>>
    /\ UNCHANGED <<pb_summary, bw_return>>
    /\ BatchOnly

process_batch ==
    \/ ProcessorSucceeds
    \/ ProcessorRaises
    \/ FailFastRaises
    \/ FallbackSucceeds
    \/ RecordFailure
    \/ BatchReturns

\* `results = results or self.results`
results_or_self(rs) == IF rs # <<>> THEN rs ELSE self_results

IsSuccess(r) == r.success
IsFailure(r) == ~r.success

\* a quotient kept as numerator and denominator; 0 is 0/1
Fraction(n, d) == <<n, d>>
FractionsEqual(p, q) == p[1] * q[2] = q[1] * p[2]

IsPrimarySuccess(r) == r.success /\ r.error = None

\* mutant: only the records without an error are kept
get_successful_PrimaryOnly(rs) ==
    LET sel == SelectSeq(results_or_self(rs), IsPrimarySuccess)
    IN  [k \in 1..Len(sel) |-> sel[k].data]

\* get_successful: [r.data for r in results if r.success]
get_successful(rs) ==
    LET sel == SelectSeq(results_or_self(rs), IsSuccess)
    IN  [k \in 1..Len(sel) |-> sel[k].data]

\* get_summary: total, successful, failed, success_rate and errors
get_summary(rs) ==
    LET rs1 == results_or_self(rs)
        total == Len(rs1)
        successful == Len(SelectSeq(rs1, IsSuccess))
        failures == SelectSeq(rs1, IsFailure)
    IN  [total |-> total,
         successful |-> successful,
         failed |-> total - successful,
         success_rate |-> IF total > 0 THEN Fraction(successful, total)
                          ELSE Fraction(0, 1),
         errors |-> [k \in 1..Len(failures) |-> failures[k].error]]

\* the caller of process_batch asks for the summary of the list it got back
GetSummary ==
    /\ pb_pc = "done"
    /\ caller = "process_batch"
    /\ pb_summary' = Some(get_summary(results))
    /\ pb_pc' = "summarised"
    /\ UNCHANGED <<BatchArgs, pb_i, results, pb_exc, self_results, pb_raised,
                   bw_return>>
    /\ BatchOnly

\* `return handler.get_successful(results), handler.get_summary(results)`
BatchRewriteReturns ==
    /\ pb_pc = "done"
    /\ caller = "batch_rewrite_with_fallback"
    /\ bw_return' = Some(<<get_successful(results), get_summary(results)>>)
    /\ pb_pc' = "returned"
    /\ UNCHANGED <<BatchArgs, pb_i, results, pb_exc, self_results, pb_raised,
                   pb_summary>>
    /\ BatchOnly

BatchNext == process_batch \/ GetSummary

batch_rewrite_with_fallback ==
    \/ ProcessorSucceeds
    \/ ProcessorRaises
    \/ FallbackSucceeds
    \/ BatchReturns
    \/ BatchRewriteReturns

\* ------------------------------------------------------------------------
\* utils/timeout_utils.py: timeout and with_retry
\* ------------------------------------------------------------------------
MaxAttempts == 3
MaxTimeout == 2

RetryArgs == <<max_attempts, timeout_seconds>>

\* exceptions other than TimeoutError and AttributeError the function raises
OtherErrors == {"ValueError"}

Exc(kind, n) == [kind |-> kind, attempt |-> n]

RetryIdle ==
    /\ max_attempts = 0 /\ timeout_seconds = 0
    /\ attempt = 0 /\ last_error = None /\ rt_pc = "idle"
    /\ sig_handler = "SIG_DFL" /\ alarm = 0 /\ old_handler = "unset"
    /\ calls = 0 /\ inv_log = <<>>
    /\ rt_result = None /\ rt_error = None

\* max_attempts is any int: a negative one leaves the loop empty, as 0 does
RetryInit ==
    /\ max_attempts \in (0 - 1)..MaxAttempts
    /\ timeout_seconds \in 0..MaxTimeout
    /\ attempt = 1
    /\ last_error = None
    /\ rt_pc = "loop"
    /\ sig_handler = "SIG_DFL"
    /\ alarm = 0
    /\ old_handler = "unset"
    /\ calls = 0
    /\ inv_log = <<>>
    /\ rt_result = None
    /\ rt_error = None

\* mutant: range(1, max_attempts)
InRange_OffByOne(n, max) == n < max

\* `for attempt in range(1, max_attempts + 1)`
InRange(n, max) == n <= max

\* the function is called with `armed` seconds on the alarm
Invoked(armed) ==
    /\ calls' = calls + 1
    /\ inv_log' = Append(inv_log,
           [attempt |-> attempt, armed |-> armed, outcome |-> "running"])

\* the running invocation ends
Logged(outcome) ==
    inv_log' = [inv_log EXCEPT ![Len(inv_log)].outcome = outcome]

\* the `finally` of timeout's wrapper: signal.alarm(0), then the old handler
\* is put back
TimeoutFinally ==
    /\ alarm' = 0
    /\ sig_handler' = old_handler
    /\ UNCHANGED old_handler

\* `except TimeoutError as e: last_error = e`, and the loop goes on
RetryOnTimeout ==
    /\ last_error' = Some(Exc("TimeoutError", attempt))
    /\ attempt' = attempt + 1
    /\ rt_pc' = "loop"
    /\ UNCHANGED <<rt_result, rt_error>>

\* an attempt begins: timed_call() installs the handler, arms the alarm and
\* calls the function
AttemptStarts ==
    /\ rt_pc = "loop"
    /\ InRange(attempt, max_attempts)
    /\ old_handler' = sig_handler
    /\ sig_handler' = "timeout_handler"
    /\ alarm' = timeout_seconds
    /\ Invoked(alarm')
    /\ rt_pc' = "in_func"
    /\ UNCHANGED <<RetryArgs, attempt, last_error, rt_result, rt_error>>
    /\ RetryOnly

\* a second passes while the function runs under a pending alarm
Tick ==
    /\ rt_pc = "in_func"
    /\ alarm > 1
    /\ alarm' = alarm - 1
    /\ UNCHANGED <<RetryArgs, attempt, last_error, rt_pc, sig_handler,
                   old_handler, calls, inv_log, rt_result, rt_error>>
    /\ RetryOnly

\* SIGALRM is delivered: timeout_handler raises TimeoutError in the function
AlarmFires ==
    /\ rt_pc = "in_func"
    /\ alarm = 1
    /\ sig_handler = "timeout_handler"
    /\ Logged("TimeoutError")
    /\ TimeoutFinally
    /\ RetryOnTimeout
    /\ UNCHANGED <<RetryArgs, calls>>
    /\ RetryOnly

\* the function returns: the wrapper returns its value
FuncReturns ==
    /\ \/ /\ rt_pc = "in_func"
          /\ Logged("returned")
          /\ TimeoutFinally
       \/ /\ rt_pc = "in_func_again"
          /\ Logged("returned")
          /\ UNCHANGED <<alarm, sig_handler, old_handler>>
    /\ rt_result' = <<"value", calls>>
    /\ rt_pc' = "returned"
    /\ UNCHANGED <<RetryArgs, attempt, last_error, calls, rt_error>>
    /\ RetryOnly

\* the function itself raises timeout_utils.TimeoutError
FuncRaisesTimeoutError ==
    /\ \/ /\ rt_pc = "in_func"
          /\ Logged("TimeoutError")
          /\ TimeoutFinally
       \/ /\ rt_pc = "in_func_again"
          /\ Logged("TimeoutError")
          /\ UNCHANGED <<alarm, sig_handler, old_handler>>
    /\ RetryOnTimeout
    /\ UNCHANGED <<RetryArgs, calls>>
    /\ RetryOnly

\* the function raises AttributeError under the alarm: timeout's wrapper takes
\* it for a platform without SIGALRM and calls the function again, untimed
FuncRaisesAttributeError ==
    /\ rt_pc = "in_func"
    /\ TimeoutFinally
    /\ calls' = calls + 1
    /\ inv_log' = Append(
           [inv_log EXCEPT ![Len(inv_log)].outcome = "AttributeError"],
           [attempt |-> attempt, armed |-> alarm', outcome |-> "running"])
    /\ rt_pc' = "in_func_again"
    /\ UNCHANGED <<RetryArgs, attempt, last_error, rt_result, rt_error>>
    /\ RetryOnly

\* `except Exception as e: raise`
FuncRaisesOther ==
    /\ \/ /\ rt_pc = "in_func"
          /\ \E e \in OtherErrors :
               /\ Logged(e)
               /\ rt_error' = Some(Exc(e, attempt))
          /\ TimeoutFinally
       \/ /\ rt_pc = "in_func_again"
          /\ \E e \in OtherErrors \cup {"AttributeError"} :
               /\ Logged(e)
               /\ rt_error' = Some(Exc(e, attempt))
          /\ UNCHANGED <<alarm, sig_handler, old_handler>>
    /\ rt_pc' = "raised"
    /\ UNCHANGED <<RetryArgs, attempt, last_error, calls, rt_result>>
    /\ RetryOnly

\* the loop is over: `raise last_error`; raising None is a TypeError
AttemptsExhausted ==
    /\ rt_pc = "loop"
    /\ ~InRange(attempt, max_attempts)
    /\ rt_error' = IF last_error = None THEN Some(Exc("TypeError", attempt))
                   ELSE last_error
    /\ rt_pc' = "raised"
    /\ UNCHANGED <<RetryArgs, attempt, last_error, sig_handler, alarm,
                   old_handler, calls, inv_log, rt_result>>
    /\ RetryOnly

with_retry ==
    \/ AttemptStarts
    \/ Tick
    \/ AlarmFires
    \/ FuncReturns
    \/ FuncRaisesTimeoutError
    \/ FuncRaisesAttributeError
    \/ FuncRaisesOther
    \/ AttemptsExhausted

\* ------------------------------------------------------------------------
\* agents/layout_engine.py and agents/rewrite_agent.py
\* ------------------------------------------------------------------------
MaxContentLen == 3
MaxRewriteLength == 3

\* mutant: the limit itself is refused
validate_constraints_BelowLimit(original_text, new_text, max_chars) ==
    Len(new_text) < max_chars

\* LayoutEngine.validate_constraints
validate_constraints(original_text, new_text, max_chars) ==
    Len(new_text) <= max_chars

\* message contents the model may produce
Contents == StringsUpTo({"a", " "}, MaxContentLen)

RewriteTexts == {<<"B">>, <<"B", " ", "a">>}

RewriteIdle ==
    /\ rw_bullet_text = <<>> /\ rw_max_length = 0 /\ rw_content = None
    /\ rw_pc = "idle" /\ rw_return = <<>>

RewriteInit ==
    /\ rw_bullet_text \in RewriteTexts
    /\ rw_max_length \in 0..MaxRewriteLength
    /\ rw_content = None
    /\ rw_pc = "call"
    /\ rw_return = <<>>

\* what rewrite_bullet returns for a message content
rewritten_text(content, max_len) == strip(content)

\* ollama.chat returns: the stripped content is returned (a longer text only
\* logs a warning)
OllamaReplies ==
    /\ rw_pc = "call"
    /\ \E content \in Contents :
         /\ rw_content' = Some(content)
         /\ rw_return' = rewritten_text(content, rw_max_length)
    /\ rw_pc' = "done"
    /\ UNCHANGED <<rw_bullet_text, rw_max_length>>
    /\ RewriteOnly

\* ollama.chat raises: `return bullet_text`
OllamaRaises ==
    /\ rw_pc = "call"
    /\ rw_content' = None
    /\ rw_return' = rw_bullet_text
    /\ rw_pc' = "failed"
    /\ UNCHANGED <<rw_bullet_text, rw_max_length>>
    /\ RewriteOnly

rewrite_bullet == OllamaReplies \/ OllamaRaises

\* the parameters RewriteAgent.batch_rewrite declares besides self
batch_rewrite_params == {"bullets", "keywords", "constraints"}

\* a Python call binds only when every keyword argument names a parameter;
\* otherwise it raises TypeError before the body runs
CallBinds(params, keyword_args) == keyword_args \subseteq params

\* ------------------------------------------------------------------------
\* main.py: /optimize and /optimize-and-export
\* ------------------------------------------------------------------------
MaxBullets == 2
DefaultMaxChars == 200

MaxParagraphs == 2

RequestVars == <<req_bullets, req_constraints, final_bullets_override,
                 doc_paragraphs>>

OriginalTexts == {<<"a">>, <<"a", "a">>}
CandidateTexts == {<<>>, <<"b">>, <<"b", "b", "b">>}

\* paragraphs of the uploaded document: bullets and one other line
ParagraphTexts == OriginalTexts \cup {<<"c">>}

\* a constraint dict, as its set of items
ConstraintDicts == {{}, {<<"max_chars", 1>>}, {<<"max_chars", 2>>}}

ListsOf(S, n) == UNION {[1..k -> S] : k \in 0..n}

\* dict.get(key, default)
dict_get(d, key, default) ==
    IF \E kv \in d : kv[1] = key
    THEN (CHOOSE kv \in d : kv[1] = key)[2]
    ELSE default

\* constraints[idx].get("max_chars", 200) if idx < len(constraints) else 200
max_chars_at(constraints, idx) ==
    IF idx < Len(constraints)
    THEN dict_get(constraints[idx + 1], "max_chars", DefaultMaxChars)
    ELSE DefaultMaxChars

\* bullets[idx] if idx < len(bullets) else ""
original_at(bullets, idx) ==
    IF idx < Len(bullets) THEN bullets[idx + 1] ELSE <<>>

\* the validation loop shared by both endpoints
is_valid_at(bullets, constraints, candidates, idx) ==
    validate_constraints(original_at(bullets, idx), candidates[idx + 1],
                         max_chars_at(constraints, idx))

validations(bullets, constraints, candidates) ==
    [i \in 1..Len(candidates) |->
        is_valid_at(bullets, constraints, candidates, i - 1)]

validated_bullets(bullets, constraints, candidates) ==
    [i \in 1..Len(candidates) |->
        IF is_valid_at(bullets, constraints, candidates, i - 1)
        THEN candidates[i] ELSE original_at(bullets, i - 1)]

\* Python values that `in` compares: a str and a tuple are never equal
py_str(s) == [type |-> "str", value |-> s]
py_tuple(t) == [type |-> "tuple", value |-> t]
py_eq(x, y) == x.type = y.type /\ x.value = y.value

\* list(zip(a, b)): the pairs up to the shorter list
list_zip(a, b) ==
    [k \in 1..Min(Len(a), Len(b)) |-> py_tuple(<<a[k], b[k]>>)]

\* `x in lst` for a list: some element equals x
list_contains(lst, x) == \E k \in 1..Len(lst) : py_eq(lst[k], x)

\* reconstruct_docx on the value main.py passes, a list: a paragraph whose
\* text is `in replacements` would be looked up by `replacements[text]`,
\* which raises TypeError on a list; every other paragraph is kept
reconstruct_docx(paragraphs, replacements) ==
    IF \E p \in 1..Len(paragraphs) :
           list_contains(replacements, py_str(paragraphs[p]))
    THEN [raised |-> TRUE, paragraphs |-> <<>>]
    ELSE [raised |-> FALSE, paragraphs |-> paragraphs]

HttpIdle ==
    /\ req_bullets = <<>> /\ req_constraints = <<>>
    /\ final_bullets_override = None
    /\ doc_paragraphs = <<>> /\ exported_paragraphs = None
    /\ endpoint = "idle" /\ candidate_bullets = <<>>
    /\ http_status = 0 /\ final_bullets = <<>> /\ validation_results = <<>>

HttpInit ==
    /\ req_bullets \in ListsOf(OriginalTexts, MaxBullets)
    /\ req_constraints \in ListsOf(ConstraintDicts, MaxBullets)
    /\ final_bullets_override \in
           {None} \cup {Some(l) : l \in ListsOf(CandidateTexts, MaxBullets)}
    /\ doc_paragraphs \in ListsOf(ParagraphTexts, MaxParagraphs)
    /\ exported_paragraphs = None
    /\ endpoint = "request"
    /\ candidate_bullets = <<>>
    /\ http_status = 0
    /\ final_bullets = <<>>
    /\ validation_results = <<>>

\* the response after the validation loop
Respond(candidates) ==
    /\ candidate_bullets' = candidates
    /\ validation_results' =
           validations(req_bullets, req_constraints, candidates)
    /\ final_bullets' =
           validated_bullets(req_bullets, req_constraints, candidates)
    /\ http_status' = 200

\* the call raised: the request ends with status 500 and no lists
ServerError ==
    /\ http_status' = 500
    /\ UNCHANGED <<candidate_bullets, final_bullets, validation_results>>

\* what rewrite_agent.batch_rewrite returns for the bullets: one text each
BatchRewriteOutputs(bullets) == [1..Len(bullets) -> CandidateTexts]

\* POST /optimize: batch_rewrite is called with style=request.style
optimize_bullets ==
    /\ endpoint = "request"
    /\ endpoint' = "optimize"
    /\ IF CallBinds(batch_rewrite_params, {"style"})
       THEN \E rewritten \in BatchRewriteOutputs(req_bullets) :
                Respond(rewritten)
       ELSE ServerError
    /\ UNCHANGED <<RequestVars, exported_paragraphs>>
    /\ HttpOnly

\* the validation loop, then reconstruct_docx on list(zip(bullets,
\* final_bullets)); an exception of reconstruct_docx ends in status 500
Export(candidates) ==
    LET replacements ==
            list_zip(req_bullets,
                     validated_bullets(req_bullets, req_constraints,
                                       candidates))
        rebuilt == reconstruct_docx(doc_paragraphs, replacements)
    IN  IF rebuilt.raised
        THEN ServerError /\ UNCHANGED exported_paragraphs
        ELSE /\ Respond(candidates)
             /\ exported_paragraphs' = Some(rebuilt.paragraphs)

\* POST /optimize-and-export: the override, when given, is the candidate
\* list; otherwise batch_rewrite is called with style=style
optimize_and_export ==
    /\ endpoint = "request"
    /\ endpoint' = "optimize-and-export"
    /\ IF final_bullets_override # None
       THEN Export(final_bullets_override[1])
       ELSE IF CallBinds(batch_rewrite_params, {"style"})
            THEN \E rewritten \in BatchRewriteOutputs(req_bullets) :
                     Export(rewritten)
            ELSE ServerError /\ UNCHANGED exported_paragraphs
    /\ UNCHANGED RequestVars
    /\ HttpOnly

\* ------------------------------------------------------------------------
\* agents/layout_engine.py: one call of validate_constraints
\* ------------------------------------------------------------------------
MaxTextLen == 2

ValidateTexts == StringsUpTo({"a", "b"}, MaxTextLen)

ValidateIdle ==
    /\ vc_original_text = <<>> /\ vc_new_text = <<>> /\ vc_max_chars = 0
    /\ vc_pc = "idle" /\ vc_result = None

ValidateInit ==
    /\ vc_original_text \in ValidateTexts
    /\ vc_new_text \in ValidateTexts
    /\ vc_max_chars \in 0..(MaxTextLen + 1)
    /\ vc_pc = "call"
    /\ vc_result = None

ValidateCall ==
    /\ vc_pc = "call"
    /\ vc_result' = Some(validate_constraints(vc_original_text, vc_new_text,
                                              vc_max_chars))
    /\ vc_pc' = "done"
    /\ UNCHANGED <<vc_original_text, vc_new_text, vc_max_chars>>
    /\ ValidateOnly

\* ------------------------------------------------------------------------
\* utils/smart_fallback.py: one call of simple_keyword_append
\* ------------------------------------------------------------------------
MaxAppendBulletLen == 3
MaxAppendKeywords == 2
MaxAppendLength == 12

AppendBullets == StringsUpTo({"a", ".", " "}, MaxAppendBulletLen)

AppendKeywordLists ==
    UNION {[1..k -> KeywordUniverse] : k \in 0..MaxAppendKeywords}

AppendIdle ==
    /\ ska_bullet = <<>> /\ ska_keywords = <<>> /\ ska_max_length = 0
    /\ ska_pc = "idle" /\ ska_result = None

AppendInit ==
    /\ ska_bullet \in AppendBullets
    /\ ska_keywords \in AppendKeywordLists
    /\ ska_max_length \in 0..MaxAppendLength
    /\ ska_pc = "call"
    /\ ska_result = None

AppendCall ==
    /\ ska_pc = "call"
    /\ ska_result' = Some(simple_keyword_append(ska_bullet, ska_keywords,
                                                ska_max_length))
    /\ ska_pc' = "done"
    /\ UNCHANGED <<ska_bullet, ska_keywords, ska_max_length>>
    /\ AppendOnly

\* ------------------------------------------------------------------------
\* utils/timeout_utils.py: timeout called directly and by safe_timeout_call
\* ------------------------------------------------------------------------
MaxSeconds == 3

\* what the wrapped function may raise by itself
FuncErrors == {"ValueError", "TimeoutError"}

\* the value the wrapped function returns, and safe_timeout_call's fallback
FuncValue == "result"
FallbackValue == "fallback_value"

TimedIdle ==
    /\ tc_caller = "none" /\ tc_seconds = 0 /\ tc_sigalrm = FALSE
    /\ tc_pc = "idle"
    /\ tc_handler = "SIG_DFL" /\ tc_alarm = 0 /\ tc_old_handler = "unset"
    /\ tc_log = <<>> /\ tc_fired = FALSE
    /\ tc_result = None /\ tc_error = None
    /\ tc_handler_before = "SIG_DFL" /\ tc_alarm_before = 0
    /\ tc_elapsed = 0

\* the handlers the caller may have installed: the default, or the
\* timeout_handler of an enclosing timeout wrapper
OuterHandlers == {"SIG_DFL", "outer_timeout_handler"}

\* the wrapper is entered from a caller that may itself run under an alarm,
\* on a platform with SIGALRM
TimedInit ==
    /\ tc_caller \in {"timeout", "safe_timeout_call"}
    /\ tc_seconds \in 0..MaxSeconds
    /\ tc_sigalrm \in BOOLEAN
    /\ tc_pc = "call"
    /\ tc_handler \in (IF tc_sigalrm THEN OuterHandlers ELSE {"SIG_DFL"})
    /\ tc_alarm \in (IF tc_sigalrm /\ tc_handler # "SIG_DFL"
                     THEN 0..MaxSeconds ELSE {0})
    /\ tc_old_handler = "unset"
    /\ tc_log = <<>>
    /\ tc_fired = FALSE
    /\ tc_result = None
    /\ tc_error = None
    /\ tc_handler_before = tc_handler
    /\ tc_alarm_before = tc_alarm
    /\ tc_elapsed = 0

TimedArgs == <<tc_caller, tc_seconds, tc_sigalrm,
               tc_handler_before, tc_alarm_before>>

\* func(*args, **kwargs) is entered with `armed` seconds on the alarm
TimedInvoked(armed) ==
    tc_log' = Append(tc_log, [armed |-> armed, outcome |-> "running"])

\* the running invocation ends, and a further one begins with no alarm
TimedReinvoked(outcome) ==
    tc_log' = Append([tc_log EXCEPT ![Len(tc_log)].outcome = outcome],
                     [armed |-> 0, outcome |-> "running"])

\* the running invocation ends
TimedLogged(outcome) ==
    tc_log' = [tc_log EXCEPT ![Len(tc_log)].outcome = outcome]

\* `finally: signal.alarm(0); signal.signal(signal.SIGALRM, old_handler)`
TimedFinally ==
    /\ tc_alarm' = 0
    /\ tc_handler' = tc_old_handler
    /\ UNCHANGED tc_old_handler

\* the wrapper returns value to its caller
TimedReturn(value) ==
    /\ tc_result' = Some(value)
    /\ tc_pc' = "returned"
    /\ UNCHANGED tc_error

\* the wrapper raises exc: it reaches the caller of a timeout wrapper, and
\* safe_timeout_call turns it into fallback_value (`except TimeoutError`,
\* `except Exception`)
TimedRaise(exc) ==
    IF tc_caller = "safe_timeout_call"
    THEN /\ tc_result' = Some(FallbackValue)
         /\ tc_pc' = "returned"
         /\ UNCHANGED tc_error
    ELSE /\ tc_error' = Some(exc)
         /\ tc_pc' = "raised"
         /\ UNCHANGED tc_result

\* the wrapper is entered: with SIGALRM the handler is installed, the alarm
\* armed and the function called; without it signal.SIGALRM raises
\* AttributeError and the function is called with no limit
TimedCallStarts ==
    /\ tc_pc = "call"
    /\ IF tc_sigalrm
       THEN /\ tc_old_handler' = tc_handler
            /\ tc_handler' = "timeout_handler"
            /\ tc_alarm' = tc_seconds
            /\ TimedInvoked(tc_seconds)
            /\ tc_pc' = "in_func"
       ELSE /\ TimedInvoked(0)
            /\ tc_pc' = "in_func_again"
            /\ UNCHANGED <<tc_handler, tc_alarm, tc_old_handler>>
    /\ UNCHANGED <<TimedArgs, tc_fired, tc_result, tc_error, tc_elapsed>>
    /\ TimedOnly

\* a second passes while the function runs under a pending alarm
TimedTick ==
    /\ tc_pc = "in_func"
    /\ tc_alarm > 1
    /\ tc_alarm' = tc_alarm - 1
    /\ tc_elapsed' = tc_elapsed + 1
    /\ UNCHANGED <<TimedArgs, tc_pc, tc_handler, tc_old_handler, tc_log,
                   tc_fired, tc_result, tc_error>>
    /\ TimedOnly

\* SIGALRM is delivered: timeout_handler raises TimeoutError in the function
TimedAlarmFires ==
    /\ tc_pc = "in_func"
    /\ tc_alarm = 1
    /\ tc_handler = "timeout_handler"
    /\ tc_fired' = TRUE
    /\ TimedLogged("timed_out")
    /\ TimedFinally
    /\ TimedRaise("TimeoutError")
    /\ tc_elapsed' = tc_elapsed + 1
    /\ UNCHANGED TimedArgs
    /\ TimedOnly

\* the function returns
TimedFuncReturns ==
    /\ \/ tc_pc = "in_func" /\ TimedFinally
       \/ tc_pc = "in_func_again"
            /\ UNCHANGED <<tc_handler, tc_alarm, tc_old_handler>>
    /\ TimedLogged("returned")
    /\ TimedReturn(FuncValue)
    /\ UNCHANGED <<TimedArgs, tc_fired, tc_elapsed>>
    /\ TimedOnly

\* the function raises; in the second, unlimited call any exception leaves
\* the wrapper
TimedFuncRaises ==
    /\ \/ /\ tc_pc = "in_func"
          /\ TimedFinally
          /\ \E e \in FuncErrors : TimedLogged(e) /\ TimedRaise(e)
       \/ /\ tc_pc = "in_func_again"
          /\ UNCHANGED <<tc_handler, tc_alarm, tc_old_handler>>
          /\ \E e \in FuncErrors \cup {"AttributeError"} :
               TimedLogged(e) /\ TimedRaise(e)
    /\ UNCHANGED <<TimedArgs, tc_fired, tc_elapsed>>
    /\ TimedOnly

\* the function raises AttributeError under the alarm: `except AttributeError`
\* takes it for a platform without SIGALRM and calls the function again
TimedFuncRaisesAttributeError ==
    /\ tc_pc = "in_func"
    /\ TimedFinally
    /\ TimedReinvoked("AttributeError")
    /\ tc_pc' = "in_func_again"
    /\ UNCHANGED <<TimedArgs, tc_fired, tc_result, tc_error, tc_elapsed>>
    /\ TimedOnly

timeout ==
    \/ TimedCallStarts
    \/ TimedTick
    \/ TimedAlarmFires
    \/ TimedFuncReturns
    \/ TimedFuncRaises
    \/ TimedFuncRaisesAttributeError

\* ------------------------------------------------------------------------
\* utils/smart_fallback.py: cascading_fallback with longer keyword lists
\* ------------------------------------------------------------------------
MaxTemplateKeywords == 5
RoomyLength == 64

\* keywords of three lengths
TemplateKeywordUniverse == {<<"b">>, <<"b", "a">>, <<"b", "b", "b">>}

TemplateKeywordLists ==
    UNION {[1..k -> TemplateKeywordUniverse] :
              k \in (MaxTemplateKeywords - 1)..MaxTemplateKeywords}

\* blank bullets, a single word, two words with and without a period, and a
\* bullet whose capitalized word is one of the keywords
TemplateBullets ==
    {<<>>, <<" ">>, <<"a">>, <<"a", " ", "a">>, <<"a", " ", "a", ".">>,
     <<"B", "a", " ", "a">>}

TemplateCaseInit ==
    /\ bullet \in TemplateBullets
    /\ keywords \in TemplateKeywordLists
    /\ max_length \in {MaxLength, RoomyLength}
    /\ ai_rewrite_func \in BOOLEAN
    /\ cf_pc = "level1"
    /\ cf_result = <<>>
    /\ cf_strategy = ""
    /\ cf_trace = <<>>
    /\ ai_calls = <<>>

\* ------------------------------------------------------------------------
\* utils/smart_fallback.py: one call of smart_keyword_selection
\* ------------------------------------------------------------------------
MaxSelectKeywords == 3
MaxSelectCount == 3

\* keywords of three lengths, two of them differing only in case
SelectKeywordUniverse ==
    {<<"b">>, <<"b", "a">>, <<"B", "A">>, <<"a", "b", "a">>, <<"a", "b", "b">>}

SelectKeywordLists ==
    UNION {[1..k -> SelectKeywordUniverse] : k \in 0..MaxSelectKeywords}

\* texts with no token, a capitalized token, a camel-cased token, a lowercase
\* word, an all-uppercase word, and two tokens
SelectTexts ==
    {<<>>, <<"B", "a">>, <<"a", "B", "a">>, <<"b", "a">>, <<"B", "A">>,
     <<"B", "a", " ", "a", "B", "a">>}

SelectIdle ==
    /\ sks_all_keywords = <<>> /\ sks_bullet = <<>> /\ sks_max_count = 0
    /\ sks_pc = "idle" /\ sks_result = None

SelectInit ==
    /\ sks_all_keywords \in SelectKeywordLists
    /\ sks_bullet \in SelectTexts
    /\ sks_max_count \in 0..MaxSelectCount
    /\ sks_pc = "call"
    /\ sks_result = None

SelectCall ==
    /\ sks_pc = "call"
    /\ sks_pc' = "done"
    /\ sks_result' = Some(smart_keyword_selection(
                              sks_all_keywords, sks_bullet, sks_max_count))
    /\ UNCHANGED <<sks_all_keywords, sks_bullet, sks_max_count>>
    /\ SelectOnly

\* ------------------------------------------------------------------------
\* crud.py: create_resume_version, called by several requests on one resume
\* ------------------------------------------------------------------------
MaxCallers == 2
MaxVersions == 5

Callers == 1..MaxCallers

VersionIdle ==
    /\ version_rows = <<>>
    /\ crv_pc = [c \in Callers |-> "idle"]
    /\ new_version_num = [c \in Callers |-> 0]

\* a resume with no version yet, no call in progress
VersionInit ==
    /\ version_rows = <<>>
    /\ crv_pc = [c \in Callers |-> "ready"]
    /\ new_version_num = [c \in Callers |-> 0]

\* the calls that have read the last version and not committed yet
InFlight == {c \in Callers : crv_pc[c] = "read"}

\* order_by(version_number.desc()).first().version_number
last_version_number(rows) ==
    CHOOSE v \in {rows[k] : k \in 1..Len(rows)} :
        \A k \in 1..Len(rows) : rows[k] <= v

\* the query and `new_version_num = (last.version_number + 1) if last else 1`
ReadLastVersion(c) ==
    /\ crv_pc[c] = "ready"
    /\ Len(version_rows) + Cardinality(InFlight) < MaxVersions
    /\ new_version_num' =
           [new_version_num EXCEPT ![c] =
               IF version_rows = <<>> THEN 1
               ELSE last_version_number(version_rows) + 1]
    /\ crv_pc' = [crv_pc EXCEPT ![c] = "read"]
    /\ UNCHANGED version_rows
    /\ VersionOnly

\* db.add(db_version); db.commit(): the row is inserted with the number
\* computed at the read; the caller may then call again
CommitVersion(c) ==
    /\ crv_pc[c] = "read"
    /\ version_rows' = Append(version_rows, new_version_num[c])
    /\ crv_pc' = [crv_pc EXCEPT ![c] = "ready"]
    /\ UNCHANGED new_version_num
    /\ VersionOnly

ReadsLast == \E c \in Callers : ReadLastVersion(c)
Commits == \E c \in Callers : CommitVersion(c)

create_resume_version == ReadsLast \/ Commits

\* ------------------------------------------------------------------------
\* Specifications
\* ------------------------------------------------------------------------
\* cascading_fallback called on every input
CascadeSpecInit ==
    /\ CascadeInit
    /\ BatchIdle
    /\ RetryIdle
    /\ RewriteIdle
    /\ HttpIdle
    /\ ValidateIdle
    /\ AppendIdle
    /\ TimedIdle
    /\ SelectIdle
    /\ VersionIdle

SpecCascade == CascadeSpecInit /\ [][cascading_fallback]_vars

\* PartialFailureHandler.process_batch on every batch
BatchSpecInit ==
    /\ BatchInit
    /\ CascadeIdle
    /\ RetryIdle
    /\ RewriteIdle
    /\ HttpIdle
    /\ ValidateIdle
    /\ AppendIdle
    /\ TimedIdle
    /\ SelectIdle
    /\ VersionIdle

SpecBatch == BatchSpecInit /\ [][BatchNext]_vars

\* batch_rewrite_with_fallback on every list of bullets
BatchRewriteSpecInit ==
    /\ BatchRewriteInit
    /\ CascadeIdle
    /\ RetryIdle
    /\ RewriteIdle
    /\ HttpIdle
    /\ ValidateIdle
    /\ AppendIdle
    /\ TimedIdle
    /\ SelectIdle
    /\ VersionIdle

SpecBatchRewrite == BatchRewriteSpecInit /\ [][batch_rewrite_with_fallback]_vars

\* one call of a with_retry wrapper
RetrySpecInit ==
    /\ RetryInit
    /\ CascadeIdle
    /\ BatchIdle
    /\ RewriteIdle
    /\ HttpIdle
    /\ ValidateIdle
    /\ AppendIdle
    /\ TimedIdle
    /\ SelectIdle
    /\ VersionIdle

SpecRetry == RetrySpecInit /\ [][with_retry]_vars

\* one call of RewriteAgent.rewrite_bullet
RewriteSpecInit ==
    /\ RewriteInit
    /\ CascadeIdle
    /\ BatchIdle
    /\ RetryIdle
    /\ HttpIdle
    /\ ValidateIdle
    /\ AppendIdle
    /\ TimedIdle
    /\ SelectIdle
    /\ VersionIdle

SpecRewrite == RewriteSpecInit /\ [][rewrite_bullet]_vars

\* one request to /optimize or /optimize-and-export
HttpNext == optimize_bullets \/ optimize_and_export

HttpSpecInit ==
    /\ HttpInit
    /\ CascadeIdle
    /\ BatchIdle
    /\ RetryIdle
    /\ RewriteIdle
    /\ ValidateIdle
    /\ AppendIdle
    /\ TimedIdle
    /\ SelectIdle
    /\ VersionIdle

SpecHttp == HttpSpecInit /\ [][HttpNext]_vars

\* one call of validate_constraints
ValidateSpecInit ==
    /\ ValidateInit
    /\ CascadeIdle
    /\ BatchIdle
    /\ RetryIdle
    /\ RewriteIdle
    /\ HttpIdle
    /\ AppendIdle
    /\ TimedIdle
    /\ SelectIdle
    /\ VersionIdle

SpecValidate == ValidateSpecInit /\ [][ValidateCall]_vars

\* one call of simple_keyword_append
AppendSpecInit ==
    /\ AppendInit
    /\ CascadeIdle
    /\ BatchIdle
    /\ RetryIdle
    /\ RewriteIdle
    /\ HttpIdle
    /\ ValidateIdle
    /\ TimedIdle
    /\ SelectIdle
    /\ VersionIdle

SpecAppend == AppendSpecInit /\ [][AppendCall]_vars

\* one call of a timeout wrapper, directly or through safe_timeout_call
TimedSpecInit ==
    /\ TimedInit
    /\ CascadeIdle
    /\ BatchIdle
    /\ RetryIdle
    /\ RewriteIdle
    /\ HttpIdle
    /\ ValidateIdle
    /\ AppendIdle
    /\ SelectIdle
    /\ VersionIdle

SpecTimed == TimedSpecInit /\ [][timeout]_vars

\* the same call when time passes and a pending alarm is delivered; nothing
\* obliges the wrapped function to finish
SpecTimedFair ==
    /\ SpecTimed
    /\ WF_vars(TimedCallStarts)
    /\ WF_vars(TimedTick)
    /\ WF_vars(TimedAlarmFires)

\* smart_keyword_selection on every input
SelectSpecInit ==
    /\ SelectInit
    /\ CascadeIdle
    /\ BatchIdle
    /\ RetryIdle
    /\ RewriteIdle
    /\ HttpIdle
    /\ ValidateIdle
    /\ AppendIdle
    /\ TimedIdle
    /\ VersionIdle

SpecSelect == SelectSpecInit /\ [][SelectCall]_vars

\* concurrent calls of create_resume_version on one resume
VersionSpecInit ==
    /\ VersionInit
    /\ CascadeIdle
    /\ BatchIdle
    /\ RetryIdle
    /\ RewriteIdle
    /\ HttpIdle
    /\ ValidateIdle
    /\ AppendIdle
    /\ TimedIdle
    /\ SelectIdle

SpecVersion == VersionSpecInit /\ [][create_resume_version]_vars

\* cascading_fallback on lists of four and five keywords
TemplateCaseSpecInit ==
    /\ TemplateCaseInit
    /\ BatchIdle
    /\ RetryIdle
    /\ RewriteIdle
    /\ HttpIdle
    /\ ValidateIdle
    /\ AppendIdle
    /\ TimedIdle
    /\ SelectIdle
    /\ VersionIdle

SpecTemplateCase == TemplateCaseSpecInit /\ [][cascading_fallback]_vars

Init == CascadeSpecInit
Next == cascading_fallback
Spec == SpecCascade

\* ------------------------------------------------------------------------
\* Properties
\* ------------------------------------------------------------------------
CascadeDone == cf_pc = "done"

\* C1: the text cascading_fallback returns has length <= max_length or is
\* the input bullet, whatever ai_rewrite_func does.
C1_WithinLimitOrOriginal ==
    CascadeDone => (Len(cf_result) <= max_length \/ cf_result = bullet)

\* C2: with fail_fast=False process_batch propagates no exception and holds
\* one OperationResult per item handled, in input order, results[i].index = i,
\* so that the list it returns has exactly len(items) entries.
C2_OneResultPerItem ==
    ~fail_fast =>
        /\ pb_pc # "raised"
        /\ pb_raised = None
        /\ Len(results) = pb_i
        /\ \A k \in 1..Len(results) :
             /\ results[k].index = k - 1
             /\ results[k].data \in {processor(items[k]),
                                     fallback_func(items[k]),
                                     unprocessed(items[k])}
        /\ pb_pc = "done" =>
             /\ Len(results) = Len(items)
             /\ self_results = results

\* a finished batch of three in which one item succeeded, one was recovered
\* by the fallback and one failed although a fallback was given
C2_Witness ==
    /\ ~fail_fast
    /\ fallback
    /\ pb_pc = "done"
    /\ Len(items) = MaxItems
    /\ \E k \in 1..Len(results) : results[k].success /\ results[k].error = None
    /\ \E k \in 1..Len(results) : results[k].success /\ results[k].error # None
    /\ \E k \in 1..Len(results) : ~results[k].success

HttpResponded == endpoint \in {"optimize", "optimize-and-export"}

\* C3: both endpoints answer with two lists as long as the input bullets;
\* validation[i] is true iff len(candidate[i]) <= max_chars of item i, and
\* the bullet returned at i is the candidate when valid, else the original.
C3_ValidatedPerIndex ==
    HttpResponded =>
        /\ http_status = 200
        /\ Len(final_bullets) = Len(req_bullets)
        /\ Len(validation_results) = Len(req_bullets)
        /\ Len(candidate_bullets) = Len(req_bullets)
        /\ \A i \in 1..Len(candidate_bullets) :
             /\ validation_results[i] <=>
                  (Len(candidate_bullets[i])
                      <= max_chars_at(req_constraints, i - 1))
             /\ final_bullets[i] = IF validation_results[i]
                                   THEN candidate_bullets[i]
                                   ELSE req_bullets[i]

\* C4: for a non-empty bullet the text cascading_fallback returns is never
\* the empty string.
C4_NeverEmpty ==
    (CascadeDone /\ bullet # <<>>) => cf_result # <<>>

\* a call on a non-empty bullet in which ai_rewrite_func returned "" and a
\* later level produced the result
C4_Witness ==
    /\ CascadeDone
    /\ bullet # <<>>
    /\ \E k \in 1..Len(ai_calls) :
         ~ai_calls[k].raised /\ ai_calls[k].reply = <<>>
    /\ cf_strategy = "template"

NonTimeoutErrors == OtherErrors \cup {"AttributeError"}

\* C5: when an invocation raises an error other than TimeoutError, it is the
\* last invocation and the wrapper has raised that very error.
C5_NoRetryAfterOtherError ==
    \A k \in 1..Len(inv_log) :
        inv_log[k].outcome \in NonTimeoutErrors =>
            /\ k = Len(inv_log)
            /\ calls = k
            /\ rt_pc = "raised"
            /\ rt_error = Some(Exc(inv_log[k].outcome, inv_log[k].attempt))

AllAttemptsTimedOut ==
    \A k \in 1..Len(inv_log) : inv_log[k].outcome = "TimeoutError"

TruncateAtWhitespace(text, n) == rsplit_space_first(SliceTo(text, n))

\* C7: when the generation call succeeds with a text longer than max_length,
\* rewrite_bullet returns it truncated at the last whitespace at or before
\* max_length, so the result is within max_length.
C7_TruncatedToLimit ==
    (rw_pc = "done" /\ Len(strip(rw_content[1])) > rw_max_length) =>
        /\ rw_return = TruncateAtWhitespace(strip(rw_content[1]), rw_max_length)
        /\ Len(rw_return) <= rw_max_length

TagOrder == <<"ai_full", "ai_smart_subset", "template", "append", "original">>

\* the levels are tried in the order 1, 2, 3, 4, 5
LevelsInOrder ==
    \A k \in 1..Len(cf_trace) : cf_trace[k].level = k

\* the tag returned is that of the last level tried, which succeeded, and
\* every earlier level was skipped, raised or produced no change
FirstSuccessTagged ==
    CascadeDone =>
        LET n == Len(cf_trace)
        IN  /\ n \in 1..5
            /\ cf_trace[n].outcome = "succeeded"
            /\ cf_strategy = TagOrder[n]
            /\ \A k \in 1..(n - 1) :
                 cf_trace[k].outcome \in {"skipped", "raised", "nochange"}

EveryAICallRaised == \A k \in 1..Len(ai_calls) : ai_calls[k].raised

\* one of the keywords selected for the template level passes its length test
SomeSelectedKeywordFits ==
    LET selected == smart_keyword_selection(keywords, bullet, 3)
    IN  \E k \in 1..Len(selected) :
            Len(bullet) + Len(selected[k]) + 8 < max_length

\* C8 as stated: the levels run in order, the tag is the first success, and
\* whenever every AI call raises and a selected keyword fits the result
\* differs from the bullet and is tagged template.
C8_OrderAndTemplate ==
    /\ LevelsInOrder
    /\ FirstSuccessTagged
    /\ (CascadeDone /\ EveryAICallRaised /\ SomeSelectedKeywordFits) =>
           (cf_result # bullet /\ cf_strategy = "template")

\* C8 amended: the same, the template case only for a bullet that is not
\* blank (a bullet of whitespace, or the empty one, goes through unchanged).
C8_OrderAndTemplateNonBlank ==
    /\ LevelsInOrder
    /\ FirstSuccessTagged
    /\ (CascadeDone /\ EveryAICallRaised /\ SomeSelectedKeywordFits
          /\ strip(bullet) # <<>>) =>
           (cf_result # bullet /\ cf_strategy = "template")

\* both AI levels were called and raised, and the template level answered
C8_Witness ==
    /\ CascadeDone
    /\ Len(ai_calls) = 2
    /\ EveryAICallRaised
    /\ SomeSelectedKeywordFits
    /\ strip(bullet) # <<>>
    /\ cf_strategy = "template"

FirstAICallReturned == ai_calls # <<>> /\ ~ai_calls[1].raised

\* C9 as stated: whenever the first call of ai_rewrite_func returns, its
\* output is the result, tagged ai_full.
C9_FirstReplyReturned ==
    (CascadeDone /\ FirstAICallReturned) =>
        (cf_result = ai_calls[1].reply /\ cf_strategy = "ai_full")

\* C9 amended: whenever the first call returns a non-empty text other than
\* the bullet, that text is the result, tagged ai_full, whatever its length.
C9_FirstUsableReplyReturned ==
    (CascadeDone /\ FirstAICallReturned
       /\ ai_calls[1].reply # <<>> /\ ai_calls[1].reply # bullet) =>
        (cf_result = ai_calls[1].reply /\ cf_strategy = "ai_full")

\* the first reply is over the limit and is returned all the same
C9_Witness ==
    /\ CascadeDone
    /\ FirstAICallReturned
    /\ Len(ai_calls[1].reply) > max_length
    /\ cf_result = ai_calls[1].reply
    /\ cf_strategy = "ai_full"

\* C10: the strategy tag returned is one of the five tags and never empty.
C10_TagInClosedSet ==
    CascadeDone =>
        /\ cf_strategy \in {"ai_full", "ai_smart_subset", "template",
                            "append", "original"}
        /\ cf_strategy # ""

\* the second AI level answered
C10_Witness ==
    /\ CascadeDone
    /\ cf_strategy = "ai_smart_subset"
    /\ Len(ai_calls) = 2

\* C11: cascading_fallback never raises, whatever ai_rewrite_func raises at
\* level 1 or 2; and when every AI call fails and the keyword list is empty
\* it returns the bullet unchanged with tag original.
C11_NeverRaisesEmptyKeywordsOriginal ==
    /\ cf_pc # "raised"
    /\ (\E k \in 1..Len(cf_trace) : cf_trace[k].outcome = "raised") =>
           cf_pc \in {"level2", "level3", "level4", "level5", "done"}
    /\ (CascadeDone /\ EveryAICallRaised /\ keywords = <<>>) =>
           (cf_result = bullet /\ cf_strategy = "original")

\* both AI levels raised, no local level could add a keyword, and the call
\* returned the bullet
C11_Witness ==
    /\ CascadeDone
    /\ Len(ai_calls) = 2
    /\ EveryAICallRaised
    /\ strip(bullet) # <<>>
    /\ cf_result = bullet
    /\ cf_strategy = "original"

\* C12 as stated: for len(bullet) > max_length, when every AI call fails the
\* result is (bullet, "original") for every keyword list, and
\* validate_constraints on it is false.
C12_OverlongStaysOriginal ==
    (CascadeDone /\ EveryAICallRaised /\ Len(bullet) > max_length) =>
        /\ cf_result = bullet
        /\ cf_strategy = "original"
        /\ ~validate_constraints(bullet, cf_result, max_length)

\* the bullet as simple_keyword_append measures it
CleanBullet == strip(rstrip_char(bullet, "."))

\* C12 amended: the same for a bullet that is still longer than max_length
\* once its trailing periods and surrounding whitespace are removed.
C12_OverlongCleanStaysOriginal ==
    (CascadeDone /\ EveryAICallRaised /\ Len(CleanBullet) > max_length) =>
        /\ cf_result = bullet
        /\ cf_strategy = "original"
        /\ ~validate_constraints(bullet, cf_result, max_length)

\* an over-long bullet with keywords on offer and both AI levels raising
C12_Witness ==
    /\ CascadeDone
    /\ Len(CleanBullet) > max_length
    /\ Len(ai_calls) = 2
    /\ EveryAICallRaised
    /\ cf_strategy = "original"
    /\ ~validate_constraints(bullet, cf_result, max_length)

\* the items whose processor call returned, and those it did not
PrimarySuccesses == (0..(Len(items) - 1)) \ processor_raises
NonPrimary == (0..(Len(items) - 1)) \cap processor_raises

\* the items the fallback recovers when it is given the chance
Recoverable(i) == fallback /\ i \notin fallback_raises

\* C13: the summary's success rate is (items whose primary processor call
\* succeeded) / total, and 0 for an empty batch; an item recovered by the
\* fallback is not counted as a primary success.
C13_RateCountsPrimaryOnly ==
    pb_summary # None =>
        LET summary == pb_summary[1]
        IN  /\ summary.total = Len(items)
            /\ summary.successful = Cardinality(PrimarySuccesses)
            /\ FractionsEqual(summary.success_rate,
                   IF Len(items) = 0 THEN Fraction(0, 1)
                   ELSE Fraction(Cardinality(PrimarySuccesses), Len(items)))

\* C14: the summary's errors list holds one textual reason for every item
\* whose outcome the primary processor did not produce, fallback-recovered
\* items included.
C14_ErrorsForEveryNonPrimary ==
    pb_summary # None =>
        LET summary == pb_summary[1]
        IN  /\ Len(summary.errors) = Cardinality(NonPrimary)
            /\ \A k \in 1..Len(summary.errors) : summary.errors[k] # None

\* C15: with fail_fast=True the batch is aborted, with its later items left
\* unprocessed, only at an item for which processor and fallback both
\* raise; an item whose fallback succeeds does not abort it.
C15_AbortsOnlyWhenUnrecoverable ==
    (fail_fast /\ pb_pc = "raised") =>
        /\ pb_i \in processor_raises
        /\ ~Recoverable(pb_i)
        /\ Len(results) = pb_i

\* C20: batch_rewrite_with_fallback never raises and returns len(bullets)
\* strings aligned by index: rewrite_func(bullets[i]) where that call
\* returned, bullets[i] where it raised.
C20_OneStringPerBullet ==
    caller = "batch_rewrite_with_fallback" =>
        /\ pb_pc # "raised"
        /\ pb_raised = None
        /\ bw_return # None =>
             LET rewritten == bw_return[1][1]
             IN  /\ Len(rewritten) = Len(items)
                 /\ \A k \in 1..Len(rewritten) :
                      rewritten[k] = IF (k - 1) \in processor_raises
                                     THEN unprocessed(items[k])
                                     ELSE processor(items[k])

\* three bullets, the rewrite of the second one raised
C20_Witness ==
    /\ caller = "batch_rewrite_with_fallback"
    /\ bw_return # None
    /\ Len(items) = MaxItems
    /\ processor_raises = {1}

\* C16: validate_constraints(original, candidate, max_chars) is true iff
\* len(candidate) <= max_chars, true at exactly the limit, whatever the
\* original is; so an original validates against itself whenever
\* max_chars >= len(original).
C16_ValidIffWithinLimit ==
    vc_pc = "done" =>
        /\ vc_result[1] <=> (Len(vc_new_text) <= vc_max_chars)
        /\ Len(vc_new_text) = vc_max_chars => vc_result[1]
        /\ \A other \in ValidateTexts :
             validate_constraints(other, vc_new_text, vc_max_chars)
                 = vc_result[1]
        /\ (vc_new_text = vc_original_text
              /\ vc_max_chars >= Len(vc_original_text)) => vc_result[1]

\* a non-empty candidate of exactly max_chars characters, other than the
\* original, was accepted
C16_Witness ==
    /\ vc_pc = "done"
    /\ vc_new_text # <<>>
    /\ Len(vc_new_text) = vc_max_chars
    /\ vc_new_text # vc_original_text
    /\ vc_result = Some(TRUE)

\* the subsequence of kws at the indexes in picked
RECURSIVE SubSequence(_, _, _)
SubSequence(kws, picked, k) ==
    IF k > Len(kws) THEN <<>>
    ELSE (IF k \in picked THEN <<kws[k]>> ELSE <<>>)
         \o SubSequence(kws, picked, k + 1)

\* the bullet without its trailing periods and surrounding whitespace
WithoutTrailingPeriod(blt) == strip(rstrip_char(blt, "."))

\* text has the form "<prefix> (kw1, kw2, ...)." for some keywords of kws,
\* in their order
HasAppendForm(text, prefix, kws) ==
    \E picked \in (SUBSET (1..Len(kws))) \ {{}} :
        text = prefix \o <<" ", "(">>
               \o join(<<",", " ">>, SubSequence(kws, picked, 1))
               \o <<")", ".">>

\* no keyword passes the length test of simple_keyword_append
NoKeywordFits(blt, kws, max_len) ==
    \A k \in 1..Len(kws) :
        ~(Len(WithoutTrailingPeriod(blt)) + Len(kws[k]) + 3 < max_len - 1)

\* C17: whenever simple_keyword_append adds a keyword its result is
\* "<bullet without trailing period> (kw1, kw2, ...).", ends with ")." and
\* is no longer than max_length; when no keyword fits it returns the bullet
\* unchanged.
C17_AppendFormWithinLimit ==
    ska_pc = "done" =>
        LET text == ska_result[1]
        IN  /\ text # ska_bullet =>
                 /\ HasAppendForm(text, WithoutTrailingPeriod(ska_bullet),
                                  ska_keywords)
                 /\ Len(text) >= 2
                 /\ SliceFrom(text, Len(text) - 2) = <<")", ".">>
                 /\ Len(text) <= ska_max_length
            /\ NoKeywordFits(ska_bullet, ska_keywords, ska_max_length) =>
                 text = ska_bullet
            /\ (strip(ska_bullet) # <<>>
                  /\ ~NoKeywordFits(ska_bullet, ska_keywords, ska_max_length))
                 => text # ska_bullet

\* two keywords were appended to a bullet that ended with a period
C17_Witness ==
    /\ ska_pc = "done"
    /\ ska_bullet = <<"a", " ", ".">>
    /\ ska_keywords = <<<<"b", "a">>, <<"b">>>>
    /\ ska_result = Some(<<"a", " ", "(", "b", "a", ",", " ", "b", ")", ".">>)

TimedRunning == tc_pc \in {"in_func", "in_func_again"}
TimedFinished == tc_pc \in {"returned", "raised"}

\* C18: a call of a timeout(seconds) wrapper whose function does not finish
\* within the limit is abandoned: the wrapper eventually hands control back,
\* and once the limit has passed what it hands back is TimeoutError, never
\* the function's result.
C18_OverrunAbandoned ==
    /\ [](tc_caller = "timeout" =>
            ((TimedFinished /\ tc_fired) =>
                 (tc_error = Some("TimeoutError") /\ tc_result = None)))
    /\ (tc_caller = "timeout" /\ TimedRunning) ~> TimedFinished

\* an invocation of the function ended without a value
FuncFailed ==
    \E k \in 1..Len(tc_log) : tc_log[k].outcome \notin {"returned", "running"}

\* C19: safe_timeout_call never raises; it returns func's result when func
\* completes in time, and fallback_value when func times out or raises.
C19_ResultOrFallback ==
    tc_caller = "safe_timeout_call" =>
        /\ tc_pc # "raised"
        /\ tc_error = None
        /\ tc_pc = "returned" =>
             tc_result = IF FuncFailed THEN Some(FallbackValue)
                         ELSE Some(FuncValue)

\* the entries of cf_trace that level 2 wrote with a call of ai_rewrite_func
Level2Called ==
    \E k \in 1..Len(cf_trace) :
        cf_trace[k].level = 2 /\ cf_trace[k].outcome # "skipped"

\* the elements of a list
Range(s) == {s[k] : k \in 1..Len(s)}

\* C24: the ai_smart_subset level calls ai_rewrite_func only when the keyword
\* list has more than 3 entries; the call (the second one of the cascade)
\* then gets at most 3 keywords, all of the original list and as chosen by
\* smart_keyword_selection; with 3 keywords or fewer the tag ai_smart_subset
\* is never returned
C24_SubsetLevelOnlyAboveThree ==
    /\ Level2Called =>
          /\ Len(keywords) > 3
          /\ Len(ai_calls) >= 2
          /\ Len(ai_calls[2].keywords) <= 3
          /\ Range(ai_calls[2].keywords) \subseteq Range(keywords)
          /\ ai_calls[2].keywords = smart_keyword_selection(keywords, bullet, 3)
    /\ ~Level2Called => Len(ai_calls) <= 1
    /\ Len(keywords) <= 3 => cf_strategy # "ai_smart_subset"

C24_Witness ==
    /\ CascadeDone
    /\ cf_strategy = "ai_smart_subset"
    /\ Len(keywords) > 3
    /\ Len(ai_calls[2].keywords) = 3

\* C27: the tag is "original" exactly when the returned text is the input
\* bullet: no level before the last returns the unchanged bullet, and the
\* last level returns nothing else
C27_OriginalIffUnchanged ==
    CascadeDone => (cf_strategy = "original" <=> cf_result = bullet)

\* a cascade where ai_rewrite_func gave back the unchanged bullet and every
\* later level left it unchanged too
C27_Witness ==
    /\ CascadeDone
    /\ cf_strategy = "original"
    /\ \E k \in 1..Len(ai_calls) :
          ~ai_calls[k].raised /\ ai_calls[k].reply = bullet
    /\ bullet # <<>>

\* the items i whose input bullet is the text of paragraph p
ItemsOf(p) ==
    {i \in 1..Min(Len(req_bullets), Len(final_bullets)) :
        req_bullets[i] = doc_paragraphs[p]}

\* C21: in the document /optimize-and-export sends back, every paragraph of
\* the upload whose text is input bullet i carries the accepted final text of
\* item i, and every other paragraph is as uploaded
C21_ParagraphsReplaced ==
    (endpoint = "optimize-and-export" /\ http_status = 200) =>
        /\ exported_paragraphs # None
        /\ Len(exported_paragraphs[1]) = Len(doc_paragraphs)
        /\ \A p \in 1..Len(doc_paragraphs) :
              IF ItemsOf(p) = {}
              THEN exported_paragraphs[1][p] = doc_paragraphs[p]
              ELSE \E i \in ItemsOf(p) :
                      exported_paragraphs[1][p] = final_bullets[i]

\* the tokens of the text that count as already present, lowercased
PresentTokens ==
    {lower(t) : t \in {u \in word_tokens(sks_bullet) :
                          MatchesCapitalized(u) \/ MatchesCamel(u)}}

IsAbsent(kw) == lower(kw) \notin PresentTokens

\* R: all_keywords without those equal, ignoring case, to a present token
Remaining == SelectSeq(sks_all_keywords, IsAbsent)

\* s is r ordered by length ascending, equal lengths in the order of r
IsStableSortByLength(s, r) ==
    /\ Len(s) = Len(r)
    /\ \E f \in [1..Len(r) -> 1..Len(r)] :
          /\ \A i, j \in 1..Len(r) : i # j => f[i] # f[j]
          /\ \A i \in 1..Len(r) : s[i] = r[f[i]]
          /\ \A i, j \in 1..Len(r) :
                i < j => \/ Len(s[i]) < Len(s[j])
                         \/ Len(s[i]) = Len(s[j]) /\ f[i] < f[j]

\* C22: smart_keyword_selection returns the first max_count of all_keywords
\* when R is empty, otherwise the first max_count of R ordered by length
\* ascending with ties in their original order; never more than max_count
C22_ShortestAbsentFirst ==
    sks_pc = "done" =>
        LET result == sks_result[1]
            n == sks_max_count
        IN  /\ Len(result) <= n
            /\ IF Remaining = <<>>
               THEN result = SubSeq(sks_all_keywords, 1,
                                    Min(n, Len(sks_all_keywords)))
               ELSE \E s \in [1..Len(Remaining) -> Range(Remaining)] :
                       /\ IsStableSortByLength(s, Remaining)
                       /\ result = SubSeq(s, 1, Min(n, Len(s)))

\* a call where a keyword was dropped for a token of the text, the rest had
\* to be reordered, and the count cut the list
C22_Witness ==
    /\ sks_pc = "done"
    /\ Len(Remaining) < Len(sks_all_keywords)
    /\ Len(Remaining) > sks_max_count
    /\ sks_max_count > 0
    /\ sks_result[1] # SubSeq(Remaining, 1, sks_max_count)

\* C30: the version numbers of a resume's rows are pairwise distinct and are
\* 1..n in the order the rows were created, however the calls interleave
C30_VersionsAreOneToN ==
    \A k \in 1..Len(version_rows) : version_rows[k] = k

\* the attempts that ended in TimeoutError before the current one
TimedOutAttempts == attempt - 1

\* C28: when the wrapper of with_retry returns, the invocation that returned
\* is the last one and the only one that returned, the wrapper returns its
\* value, and the function was invoked once per timed-out attempt before it
\* plus once, never more than max_attempts times
C28_StopsAtFirstReturn ==
    rt_pc = "returned" =>
        /\ inv_log[Len(inv_log)].outcome = "returned"
        /\ \A k \in 1..(Len(inv_log) - 1) : inv_log[k].outcome # "returned"
        /\ rt_result = <<"value", calls>>
        /\ calls = Len(inv_log)
        /\ calls = TimedOutAttempts + 1
        /\ calls <= max_attempts

\* the errors the wrapped function raised, as with_retry would pass them on
RaisedByFunction ==
    {Some(Exc(inv_log[k].outcome, inv_log[k].attempt)) :
        k \in {j \in 1..Len(inv_log) :
                  inv_log[j].outcome \notin {"running", "returned"}}}

\* C29: for every max_attempts, 0 and negative values included, a wrapper of
\* with_retry that does not return raises a TimeoutError or the exception
\* the wrapped function raised, never another error
C29_OnlyTimeoutOrFunctionError ==
    rt_pc = "raised" =>
        \/ rt_error[1].kind = "TimeoutError"
        \/ rt_error \in RaisedByFunction

\* C25: a call of a timeout-decorated wrapper invokes the wrapped function
\* exactly once, whether the function returns, raises or times out
C25_InvokedExactlyOnce ==
    (tc_caller = "timeout" /\ TimedFinished) => Len(tc_log) = 1

\* C26: when a timeout-wrapped call has returned or raised, the SIGALRM
\* handler is the one the caller had, and an alarm that was pending at the
\* call and has not come due is still pending with the time it has left
C26_HandlerAndAlarmRestored ==
    (tc_sigalrm /\ TimedFinished) =>
        /\ tc_handler = tc_handler_before
        /\ tc_alarm_before > tc_elapsed =>
              tc_alarm = tc_alarm_before - tc_elapsed

\* the cascade got as far as the template level
TemplateLevelReached ==
    /\ CascadeDone
    /\ \E k \in 1..Len(cf_trace) : cf_trace[k].level = 3

\* no keyword is, ignoring case, a word of the bullet
NoKeywordInBullet ==
    \A k \in 1..Len(keywords) :
        lower(keywords[k]) \notin {lower(t) : t \in word_tokens(bullet)}

RECURSIVE TotalLength(_)
TotalLength(kws) ==
    IF kws = <<>> THEN 0 ELSE Len(Head(kws)) + 8 + TotalLength(Tail(kws))

\* max_length leaves room for every keyword
RoomForAll == Len(bullet) + TotalLength(keywords) < max_length

\* keyword i comes before keyword j when ordered by length, ties by position
ShorterFirst(i, j) ==
    \/ Len(keywords[i]) < Len(keywords[j])
    \/ Len(keywords[i]) = Len(keywords[j]) /\ i < j

\* text is the template form of the bullet on the three shortest keywords
IsTemplateOfThreeShortest(text) ==
    LET words == split(bullet)
    IN  /\ words # <<>>
        /\ \E i1, i2, i3 \in 1..Len(keywords) :
              /\ ShorterFirst(i1, i2) /\ ShorterFirst(i2, i3)
              /\ \A j \in 1..Len(keywords) \ {i1, i2, i3} : ShorterFirst(i3, j)
              /\ LET listed == join(<<",", " ">>,
                                    <<keywords[i1], keywords[i2], keywords[i3]>>)
                 IN  text =
                       IF Len(words) > 1
                       THEN words[1] \o <<" ">> \o join(<<" ">>, Tail(words))
                            \o <<" ", "u", "s", "i", "n", "g", " ">> \o listed
                       ELSE words[1] \o <<" ", "w", "i", "t", "h", " ">>
                            \o listed

TemplateCase ==
    TemplateLevelReached /\ Len(keywords) = 5 /\ NoKeywordInBullet
        /\ RoomForAll

\* C23: when the cascade reaches the template level with 5 keywords, none in
\* the bullet, and room for all, the result carries the 3 shortest keywords
\* in ascending length order in the form "<action> <remainder> using k1, k2,
\* k3" ("<action> with k1, k2, k3" for one word), with tag template
C23_ThreeShortestInTemplate ==
    TemplateCase =>
        cf_strategy = "template" /\ IsTemplateOfThreeShortest(cf_result)

\* C23 for bullets that have a word: the template level returns a blank
\* bullet unchanged
C23_ThreeShortestInTemplateNonBlank ==
    (TemplateCase /\ strip(bullet) # <<>>) =>
        cf_strategy = "template" /\ IsTemplateOfThreeShortest(cf_result)

\* a two-word bullet whose five keywords come in descending length order
C23_Witness ==
    /\ TemplateCase
    /\ Len(split(bullet)) = 2
    /\ cf_strategy = "template"
    /\ Len(keywords[1]) > Len(keywords[5])
    /\ Len(keywords[2]) > Len(keywords[4])

====
